---- MODULE Spec2Model ----
(***************************************************************************)
(* A model of js/accessibility.js: the AccessibilityManager class.         *)
(*                                                                         *)
(* The page runs on one event loop.  Every event handler, timer callback   *)
(* and mutation-observer callback runs to completion, so each is one       *)
(* action.  Three groups of state are modelled:                            *)
(*   - the accessibility panel (class, aria mirrors, tab order, focus),    *)
(*   - the contact form (field values, errors, submit button, banners),    *)
(*   - the display preferences (storage entries and document hooks).       *)
(***************************************************************************)
EXTENDS Integers, Sequences, FiniteSets, TLC

VARIABLES
    pc,              \* "boot" before initializeComponents has run, "ready" after
    \* ---- panel ----
    panelOpen,       \* panel.classList.contains('open')
    ariaExpanded,    \* toggle's aria-expanded attribute, "true" / "false"
    ariaHidden,      \* panel's aria-hidden attribute, "true" / "false"
    tabindex,        \* tabindex attribute of each panel-internal control
    obsPending,      \* an aria-hidden mutation record awaits delivery to the observer
    focusTimers,     \* number of pending 100 ms focus timers set by openPanel
    keyboardNav,     \* document.body has class 'keyboard-navigation'
    \* ---- shared ----
    focus,           \* the element that has focus
    announcements,   \* the messages the last handler passed to announceToScreenReader
    \* ---- contact form ----
    values,          \* value of each required field, a sequence of characters
    errorText,       \* textContent of each field's error element
    errorVisible,    \* the error element has class 'visible'
    ariaInvalid,     \* aria-invalid attribute of each field, "true" / "false"
    submitDisabled,  \* submitBtn.disabled
    submitReady,     \* the 'submitReady' description node exists and is referenced
    loading,         \* submitBtn has class 'loading'
    label,           \* submitBtn.textContent
    gateTimers,      \* number of pending zero-delay updateSubmitButtonState timers
    inflight,        \* submissions awaiting their transport, oldest first
    banners,         \* the banner nodes in the form, in document order; each has
                     \* the position of its own removal timer in bannerTimers
                     \* and its kind, "success" / "error"
    bannerTimers,    \* the pending 8 s removal timers, oldest first, one per banner
                     \* node created; each entry counts the transports due before it
    \* ---- preferences ----
    storage,         \* localStorage: key -> string, null when the key is absent
    dataTheme,       \* data-theme attribute of the document root ("none" while absent)
    rootClasses,     \* style classes of the document root
    widgets,         \* state of the preference controls
    motionListener,  \* the media-query 'change' listener has been registered
    isInitialized,   \* this.isInitialized
    loadOutcome,     \* how loadUserPreferences ended: "notCalled", "returned", "threw"
    \* ---- environment ----
    sysTheme,        \* prefers-color-scheme signal: "light", "dark" or "none"
    sysMotion,       \* (prefers-reduced-motion: reduce) matches
    storageMode,     \* "ok", "readThrows" (getItem throws), "allThrows" (any access throws)
    helpersDefined   \* detectSystemTheme and updateThemeControls exist on the manager

formVars == <<values, errorText, errorVisible, ariaInvalid, submitDisabled,
              submitReady, loading, label, gateTimers, inflight, banners,
              bannerTimers>>

prefVars == <<storage, dataTheme, rootClasses, widgets, motionListener,
              isInitialized, loadOutcome>>

envVars == <<sysTheme, sysMotion, storageMode, helpersDefined>>

panelVars == <<panelOpen, ariaExpanded, ariaHidden, tabindex, obsPending,
               focusTimers, keyboardNav>>

\* The banner shown last: the position of its removal timer (0 when the form
\* has no banner) and its kind ("none" when the form has no banner).
banner == IF banners = <<>> THEN 0 ELSE banners[Len(banners)].timer
bannerKind == IF banners = <<>> THEN "none" ELSE banners[Len(banners)].kind

(***************************************************************************)
(* Bounds of the model.                                                    *)
(***************************************************************************)
MaxFocusTimers == 2      \* pending openPanel focus timers
MaxGateTimers == 3       \* pending zero-delay submit-gate recomputes
MaxInFlight == 2         \* submissions awaiting their transport
MaxBanners == 2          \* banner nodes with a pending removal timer
MaxEmailLen == 5         \* characters of an email value drawn from EmailAlphabet

(***************************************************************************)
(* Strings.  A field value is a sequence of one-character strings, so that *)
(* trim(), .length and the email pattern are computed, not assumed.        *)
(***************************************************************************)
Whitespace == {" ", "\t"}

RECURSIVE TrimLeft(_)
TrimLeft(s) == IF s # <<>> /\ Head(s) \in Whitespace THEN TrimLeft(Tail(s)) ELSE s

RECURSIVE TrimRight(_)
TrimRight(s) ==
    IF s # <<>> /\ s[Len(s)] \in Whitespace
    THEN TrimRight(SubSeq(s, 1, Len(s) - 1))
    ELSE s

\* String.prototype.trim
trim(s) == TrimRight(TrimLeft(s))

\* A non-empty run s[a..b] of characters matching [^\s@].
Run(s, a, b) == a <= b /\ \A k \in a..b : s[k] \notin Whitespace \cup {"@"}

\* The pattern without its '\.[^\s@]+' tail: one '@' between two runs.
EmailPattern_NoDot(s) ==
    \E i \in 1..Len(s) :
        /\ s[i] = "@"
        /\ Run(s, 1, i - 1)
        /\ Run(s, i + 1, Len(s))

\* /^[^\s@]+@[^\s@]+\.[^\s@]+$/.test(s): some '@' and some later '.' split s
\* into three non-empty runs of [^\s@] (a run may itself contain dots).
EmailPattern(s) ==
    \E i \in 1..Len(s), j \in 1..Len(s) :
        /\ s[i] = "@"
        /\ s[j] = "."
        /\ Run(s, 1, i - 1)
        /\ Run(s, i + 1, j - 1)
        /\ Run(s, j + 1, Len(s))

(***************************************************************************)
(* The contact form: validation rules.                                     *)
(***************************************************************************)
\* The values a user types into each field.
NameValues == {<<>>, <<"A", "l">>, <<" ", "A", " ">>}
EmailValues == {<<>>, <<"b", "a", "d">>, <<"a", "@", "b", ".", "c">>}
MessageValues == {<<>>, <<"s", "h", "o", "r", "t">>,
                  <<"l", "o", "n", "g", " ", "e", "n", "o", "u", "g", "h">>}
FieldValues(f) ==
    CASE f = "name" -> NameValues
      [] f = "email" -> EmailValues
      [] f = "message" -> MessageValues

\* requiredFields, in the order the code walks them.
requiredFields == <<"name", "email", "message">>
Fields == {"name", "email", "message"}

\* The order in which the contact form lays out its three named fields.
DocumentOrder == <<"name", "email", "message">>

\* The gate's minimum with the short fields one character stricter.
GateMinLength_Short3(fieldId) == IF fieldId = "message" THEN 10 ELSE 3

\* updateSubmitButtonState: value.length < (fieldId === 'message' ? 10 : 2)
GateMinLength(fieldId) == IF fieldId = "message" THEN 10 ELSE 2

\* updateSubmitButtonState: the allFieldsValid flag after the loop.
allFieldsValid(vals) ==
    \A fieldId \in Fields :
        LET value == trim(vals[fieldId]) IN
        /\ ~(value = <<>> \/ Len(value) < GateMinLength(fieldId))
        /\ ~(fieldId = "email" /\ value # <<>> /\ ~EmailPattern(value))

\* The switch with the name rule one character stricter.
errorMessage_NameMin3(fieldName, raw) ==
    LET value == trim(raw) IN
    CASE fieldName = "name" ->
            IF value = <<>> THEN "Name is required"
            ELSE IF Len(value) < 3
                 THEN "Name must be at least 2 characters long"
                 ELSE ""
      [] fieldName = "email" ->
            IF value = <<>> THEN "Email is required"
            ELSE IF ~EmailPattern(value)
                 THEN "Please enter a valid email address"
                 ELSE ""
      [] fieldName = "message" ->
            IF value = <<>> THEN "Message is required"
            ELSE IF Len(value) < 10
                 THEN "Message must be at least 10 characters long"
                 ELSE ""
      [] OTHER -> ""

\* validateField: the errorMessage chosen by the switch ("" when valid).
errorMessage(fieldName, raw) ==
    LET value == trim(raw) IN
    CASE fieldName = "name" ->
            IF value = <<>> THEN "Name is required"
            ELSE IF Len(value) < 2
                 THEN "Name must be at least 2 characters long"
                 ELSE ""
      [] fieldName = "email" ->
            IF value = <<>> THEN "Email is required"
            ELSE IF ~EmailPattern(value)
                 THEN "Please enter a valid email address"
                 ELSE ""
      [] fieldName = "message" ->
            IF value = <<>> THEN "Message is required"
            ELSE IF Len(value) < 10
                 THEN "Message must be at least 10 characters long"
                 ELSE ""
      [] OTHER -> ""

\* validateField's return value.
isValid(fieldName, raw) == errorMessage(fieldName, raw) = ""

\* String(!!message), the value displayFieldError writes to aria-invalid.
BoolAttr(b) == IF b THEN "true" ELSE "false"

\* The selector matching every field that carries aria-invalid at all.
firstErrorField_AnyValue(inv) == DocumentOrder[1]

\* form.querySelector('[aria-invalid="true"]'): the first field, in document
\* order, whose attribute is "true"; "none" when the selector matches nothing.
firstErrorField(inv) ==
    IF \A k \in 1..Len(DocumentOrder) : inv[DocumentOrder[k]] # "true"
    THEN "none"
    ELSE LET k == CHOOSE n \in 1..Len(DocumentOrder) :
                      /\ inv[DocumentOrder[n]] = "true"
                      /\ \A m \in 1..(n - 1) : inv[DocumentOrder[m]] # "true"
         IN DocumentOrder[k]

(***************************************************************************)
(* The panel.                                                              *)
(***************************************************************************)
\* The controls matched by 'input, select, button:not(.accessibility-toggle)'
\* inside the panel (setupPanelTabbing).
PanelControls == {"textSize", "highContrast", "reducedMotion", "themeToggle"}

\* panel.querySelector('input, select, button, textarea, [tabindex]'): the
\* first control of the panel in document order.
FirstFocusable == "textSize"

\* Targets of a document click: inside the panel, or elsewhere on the page.
ClickTargets == {"insidePanel", "outside"}
Keys == {"Escape", "Tab", "Enter"}

\* openPanel: the three mirrors, the delayed focus and the announcement.
\* setAttribute('aria-hidden', ...) queues a mutation record for the observer.
openPanel ==
    /\ panelOpen' = TRUE
    /\ ariaExpanded' = "true"
    /\ ariaHidden' = "false"
    /\ obsPending' = TRUE
    /\ focusTimers' = focusTimers + 1
    /\ announcements' = <<"Accessibility panel opened">>

\* closePanel with the aria-expanded update left out.
closePanel_KeepsExpanded ==
    /\ panelOpen' = FALSE
    /\ ariaExpanded' = ariaExpanded
    /\ ariaHidden' = "true"
    /\ obsPending' = TRUE
    /\ focusTimers' = focusTimers
    /\ announcements' = <<"Accessibility panel closed">>

\* closePanel with the announcement left out.
closePanel_Unannounced ==
    /\ panelOpen' = FALSE
    /\ ariaExpanded' = "false"
    /\ ariaHidden' = "true"
    /\ obsPending' = TRUE
    /\ focusTimers' = focusTimers
    /\ announcements' = <<>>

\* closePanel: the inverse changes and the announcement.
closePanel ==
    /\ panelOpen' = FALSE
    /\ ariaExpanded' = "false"
    /\ ariaHidden' = "true"
    /\ obsPending' = TRUE
    /\ focusTimers' = focusTimers
    /\ announcements' = <<"Accessibility panel closed">>

(***************************************************************************)
(* The contact form: handlers.                                             *)
(***************************************************************************)
OriginalLabel == "Send Message"
BusyLabel == "Sending..."

\* Elements that can hold focus.
FormTargets == Fields \cup {"body", "toggle"}

\* displayFieldError for every field of S, as validateField(field) calls it.
displayFieldError(S, vals) ==
    /\ errorText' = [f \in Fields |->
            IF f \in S THEN errorMessage(f, vals[f]) ELSE errorText[f]]
    /\ errorVisible' = [f \in Fields |->
            IF f \in S THEN errorMessage(f, vals[f]) # "" ELSE errorVisible[f]]
    /\ ariaInvalid' = [f \in Fields |->
            IF f \in S THEN BoolAttr(errorMessage(f, vals[f]) # "") ELSE ariaInvalid[f]]

\* clearFieldError with the aria-invalid reset left out.
clearFieldError_KeepsInvalid(S) ==
    /\ errorText' = [f \in Fields |-> IF f \in S THEN "" ELSE errorText[f]]
    /\ errorVisible' = [f \in Fields |-> IF f \in S THEN FALSE ELSE errorVisible[f]]
    /\ ariaInvalid' = ariaInvalid

\* clearFieldError(field)
clearFieldError(S) ==
    /\ errorText' = [f \in Fields |-> IF f \in S THEN "" ELSE errorText[f]]
    /\ errorVisible' = [f \in Fields |-> IF f \in S THEN FALSE ELSE errorVisible[f]]
    /\ ariaInvalid' = [f \in Fields |-> IF f \in S THEN "false" ELSE ariaInvalid[f]]

\* updateSubmitButtonState, reading the field values vals.
updateSubmitButtonState(vals) ==
    /\ submitDisabled' = ~allFieldsValid(vals)
    /\ submitReady' = allFieldsValid(vals)

\* The fields whose 'blur' listener runs when focus moves to target.
Blurred(target) == IF focus \in Fields /\ target # focus THEN {focus} ELSE {}

\* element.focus(): focus moves, and a required field that loses focus runs
\* its blur listener, validateField(field), which schedules a gate recompute.
focusCall(target) ==
    /\ gateTimers + Cardinality(Blurred(target)) <= MaxGateTimers
    /\ focus' = target
    /\ displayFieldError(Blurred(target), values)
    /\ gateTimers' = gateTimers + Cardinality(Blurred(target))
    /\ UNCHANGED <<values, submitDisabled, submitReady, loading, label, inflight,
                   banners, bannerTimers>>

\* The user moves focus (Tab or click) to another element.
MoveFocus ==
    /\ pc = "ready" /\ ~obsPending
    /\ \E target \in FormTargets \ {focus} : focusCall(target)
    /\ announcements' = <<>>
    /\ UNCHANGED <<pc, panelVars, prefVars, envVars>>

\* 'input' listener: clearFieldError(field); updateSubmitButtonState().
Input ==
    /\ pc = "ready" /\ ~obsPending
    /\ \E f \in Fields : \E v \in FieldValues(f) :
        /\ focus = f
        /\ v # values[f]
        /\ values' = [values EXCEPT ![f] = v]
        /\ clearFieldError({f})
        /\ updateSubmitButtonState([values EXCEPT ![f] = v])
    /\ announcements' = <<>>
    /\ UNCHANGED <<pc, panelVars, prefVars, envVars, focus, loading, label, gateTimers, inflight,
                   banners, bannerTimers>>

\* setTimeout(() => this.updateSubmitButtonState(), 0) fires.  Timers of equal
\* delay fire in the order they were set, so every pending submission has one
\* fewer recompute ahead of its own transport timer.
GateTimer ==
    /\ pc = "ready" /\ ~obsPending
    /\ gateTimers > 0
    /\ gateTimers' = gateTimers - 1
    /\ inflight' = [k \in 1..Len(inflight) |->
            [inflight[k] EXCEPT !.gatesAhead = IF @ > 0 THEN @ - 1 ELSE 0]]
    /\ updateSubmitButtonState(values)
    /\ announcements' = <<>>
    /\ UNCHANGED <<pc, panelVars, prefVars, envVars, focus, values, errorText, errorVisible, ariaInvalid,
                   loading, label, banners, bannerTimers>>

\* validateAndSubmitForm up to its await: the part that runs in the submit event.
validateAndSubmitForm ==
    LET isFormValid == \A f \in Fields : isValid(f, values[f])
        inv == [f \in Fields |-> BoolAttr(errorMessage(f, values[f]) # "")]
        first == firstErrorField(inv)
        blurs == IF ~isFormValid /\ first # "none" THEN Cardinality(Blurred(first)) ELSE 0
        timers == gateTimers + Len(requiredFields) + blurs
    IN
    /\ timers <= MaxGateTimers
    /\ displayFieldError(Fields, values)
    /\ gateTimers' = timers
    /\ IF ~isFormValid
       THEN /\ announcements' = <<"Please correct the errors in the form">>
            /\ focus' = IF first # "none" THEN first ELSE focus
            /\ UNCHANGED <<loading, submitDisabled, label, inflight>>
       ELSE /\ Len(inflight) < MaxInFlight
            /\ loading' = TRUE
            /\ submitDisabled' = TRUE
            /\ label' = BusyLabel
            /\ inflight' = Append(inflight, [originalText |-> label, gatesAhead |-> timers])
            /\ announcements' = <<>>
            /\ UNCHANGED focus
    /\ UNCHANGED <<values, submitReady, banners, bannerTimers>>

\* The user activates the submit button (possible only while it is enabled).
SubmitClick ==
    /\ pc = "ready" /\ ~obsPending
    /\ ~submitDisabled
    /\ validateAndSubmitForm
    /\ UNCHANGED <<pc, panelVars, prefVars, envVars>>

\* A 'submit' event that does not come from the button (form.requestSubmit(),
\* a dispatched event): the listener runs whatever the button's state.
SubmitEvent ==
    /\ pc = "ready" /\ ~obsPending
    /\ submitDisabled
    /\ validateAndSubmitForm
    /\ UNCHANGED <<pc, panelVars, prefVars, envVars>>

\* showMessage with the removal of the existing banner left out.
showMessage_KeepsExisting(kind, pending) ==
    /\ Len(bannerTimers) < MaxBanners
    /\ banners' = Append(banners, [timer |-> Len(bannerTimers) + 1, kind |-> kind])
    /\ bannerTimers' = Append(
            [k \in 1..Len(bannerTimers) |->
                IF bannerTimers[k] > 0 THEN bannerTimers[k] - 1 ELSE 0],
            pending)

\* showSuccessMessage / showErrorMessage: the first banner node the form has
\* (querySelector returns the first match) is removed, a new node is appended and its 8 s removal timer is set.  The new div has no
\* tabindex, so its focus() call moves nothing.  pending is the number of
\* transports still in flight: their 2 s timers are older and shorter than
\* the new 8 s timer, so they fire before it.
showMessage(kind, pending) ==
    /\ Len(bannerTimers) < MaxBanners
    /\ banners' = Append(IF banners # <<>> THEN Tail(banners) ELSE <<>>,
                         [timer |-> Len(bannerTimers) + 1, kind |-> kind])
    /\ bannerTimers' = Append(
            [k \in 1..Len(bannerTimers) |->
                IF bannerTimers[k] > 0 THEN bannerTimers[k] - 1 ELSE 0],
            pending)

\* The finally block of validateAndSubmitForm.
finallyBlock(originalText) ==
    /\ loading' = FALSE
    /\ submitDisabled' = FALSE
    /\ label' = originalText

\* validateAndSubmitForm after its await: the oldest pending transport settles.
\* It settles only after the zero-delay timers set before it have fired.  The
\* placeholder transport (a 2 s timer) only resolves; "rejected" is the outcome
\* of a transport that fails, which the catch block is written for.
SubmissionSettled ==
    /\ pc = "ready" /\ ~obsPending
    /\ inflight # <<>>
    /\ Head(inflight).gatesAhead = 0
    /\ inflight' = Tail(inflight)
    /\ \E outcome \in {"resolved", "rejected"} :
        IF outcome = "resolved"
        THEN /\ announcements' = <<"Message sent successfully">>
             /\ values' = [f \in Fields |-> <<>>]
             /\ clearFieldError(Fields)
             /\ showMessage("success", Len(inflight) - 1)
        ELSE /\ announcements' = <<"Error sending message. Please try again.">>
             /\ showMessage("error", Len(inflight) - 1)
             /\ UNCHANGED <<values, errorText, errorVisible, ariaInvalid>>
    /\ finallyBlock(Head(inflight).originalText)
    /\ UNCHANGED <<pc, panelVars, prefVars, envVars, focus, submitReady, gateTimers>>

\* A banner node other than the one the oldest pending timer was set for.
NotOldestTimer(node) == node.timer # 1

\* The 8 s timer of the oldest banner fires, after the transports that were
\* in flight when it was set: it removes its own node if that node is still
\* in the form.
BannerTimer ==
    /\ pc = "ready" /\ ~obsPending
    /\ bannerTimers # <<>>
    /\ Head(bannerTimers) = 0
    /\ bannerTimers' = Tail(bannerTimers)
    /\ LET left == SelectSeq(banners, NotOldestTimer)
       IN banners' = [k \in 1..Len(left) |-> [left[k] EXCEPT !.timer = @ - 1]]
    /\ announcements' = <<>>
    /\ UNCHANGED <<pc, panelVars, prefVars, envVars, focus, values, errorText, errorVisible, ariaInvalid,
                   submitDisabled, submitReady, loading, label, gateTimers, inflight>>

(***************************************************************************)
(* The panel: handlers.                                                    *)
(***************************************************************************)
\* handleToggleClick with the stopPropagation call left out: the click goes on
\* to the document listener, whose target, the toggle, is outside the panel,
\* so a panel just opened is closed again by the same click.
handleToggleClick_Propagates ==
    /\ pc = "ready" /\ ~obsPending
    /\ IF panelOpen
       THEN closePanel
       ELSE /\ focusTimers < MaxFocusTimers
            /\ panelOpen' = FALSE
            /\ ariaExpanded' = "false"
            /\ ariaHidden' = "true"
            /\ obsPending' = TRUE
            /\ focusTimers' = focusTimers + 1
            /\ announcements' = <<"Accessibility panel opened",
                                  "Accessibility panel closed">>
    /\ UNCHANGED <<pc, tabindex, keyboardNav, focus, formVars, prefVars, envVars>>

\* handleToggleClick.  stopPropagation keeps the click from the document
\* listener, so handleDocumentClick does not run for it.
handleToggleClick ==
    /\ pc = "ready" /\ ~obsPending
    /\ IF panelOpen
       THEN closePanel
       ELSE focusTimers < MaxFocusTimers /\ openPanel
    /\ UNCHANGED <<pc, tabindex, keyboardNav, focus, formVars, prefVars, envVars>>

\* handleDocumentClick(event) for a click on target that reaches the document
\* listener.
handleDocumentClickOn(target) ==
    /\ pc = "ready" /\ ~obsPending
    /\ IF panelOpen /\ target # "insidePanel"
       THEN closePanel
       ELSE /\ announcements' = <<>>
            /\ UNCHANGED <<panelOpen, ariaExpanded, ariaHidden, obsPending, focusTimers>>
    /\ UNCHANGED <<pc, tabindex, keyboardNav, focus, formVars, prefVars, envVars>>

\* handleDocumentClick, for any target.
handleDocumentClick == \E target \in ClickTargets : handleDocumentClickOn(target)

\* handleKeydown(event) for the key pressed.
handleKeydownOf(key) ==
    /\ pc = "ready" /\ ~obsPending
    /\ IF key = "Escape" /\ panelOpen
       THEN closePanel /\ focusCall("toggle")
       ELSE /\ announcements' = <<>>
            /\ UNCHANGED <<panelOpen, ariaExpanded, ariaHidden, obsPending,
                           focusTimers, focus, formVars>>
    /\ keyboardNav' = IF key = "Tab" THEN TRUE ELSE keyboardNav
    /\ UNCHANGED <<pc, tabindex, prefVars, envVars>>

\* handleKeydown, for any key.
handleKeydown == \E key \in Keys : handleKeydownOf(key)

\* The 'mousedown' listener with the classList.remove call left out.
handleMousedown_KeepsMarker ==
    /\ pc = "ready" /\ ~obsPending
    /\ keyboardNav' = keyboardNav
    /\ announcements' = <<>>
    /\ UNCHANGED <<pc, panelOpen, ariaExpanded, ariaHidden, tabindex, obsPending,
                   focusTimers, focus, formVars, prefVars, envVars>>

\* The 'mousedown' listener of setupKeyboardNavigation.
handleMousedown ==
    /\ pc = "ready" /\ ~obsPending
    /\ keyboardNav' = FALSE
    /\ announcements' = <<>>
    /\ UNCHANGED <<pc, panelOpen, ariaExpanded, ariaHidden, tabindex, obsPending,
                   focusTimers, focus, formVars, prefVars, envVars>>

\* The observer callback with the isHidden test inverted.
observerCallback_Inverted ==
    /\ obsPending
    /\ tabindex' = [c \in PanelControls |-> IF ariaHidden = "true" THEN 0 ELSE -1]
    /\ obsPending' = FALSE
    /\ UNCHANGED <<pc, panelOpen, ariaExpanded, ariaHidden, focusTimers, keyboardNav,
                   focus, announcements, formVars, prefVars, envVars>>

\* The MutationObserver callback of setupPanelTabbing.  It is a microtask: it
\* runs once the handler that changed aria-hidden has returned and before any
\* other event or timer.
observerCallback ==
    /\ obsPending
    /\ tabindex' = [c \in PanelControls |-> IF ariaHidden = "true" THEN -1 ELSE 0]
    /\ obsPending' = FALSE
    /\ UNCHANGED <<pc, panelOpen, ariaExpanded, ariaHidden, focusTimers, keyboardNav,
                   focus, announcements, formVars, prefVars, envVars>>

\* What firstFocusable.focus() can do: on an open panel it moves focus; on a
\* closed one it moves focus where the page hides the panel without taking
\* it out of rendering (tabindex -1 still admits a scripted focus) and does
\* nothing where the page takes it out (display: none).  The style sheet
\* decides, so both outcomes are kept.
FocusOutcomes == IF panelOpen THEN {TRUE} ELSE BOOLEAN

\* setTimeout(() => firstFocusable.focus(), 100) fires.  Nothing cancels it
\* and the callback does not look at the panel's state.
focusTimer ==
    /\ pc = "ready" /\ ~obsPending
    /\ focusTimers > 0
    /\ focusTimers' = focusTimers - 1
    /\ \E lands \in FocusOutcomes :
          IF lands
          THEN focusCall(FirstFocusable)
          ELSE UNCHANGED <<focus, formVars>>
    /\ announcements' = <<>>
    /\ UNCHANGED <<pc, panelOpen, ariaExpanded, ariaHidden, tabindex, obsPending,
                   keyboardNav, prefVars, envVars>>

(***************************************************************************)
(* Preferences.  A setter writes the document hook, then the storage entry, *)
(* then announces; a storage access that throws ends it there.  The state a *)
(* run of setters works on is a record, so that a throw part-way is kept.   *)
(***************************************************************************)
null == "<null>"

StorageKeys == {"theme", "textSize", "highContrast", "reducedMotion"}
SizeClasses == {"text-large", "text-extra-large"}

\* The preference state as a record, with the announcements made so far and
\* whether an exception is propagating.
PrefState ==
    [dataTheme |-> dataTheme, rootClasses |-> rootClasses, storage |-> storage,
     widgets |-> widgets, ann |-> <<>>, threw |-> FALSE]

\* localStorage.setItem(key, value)
setItem(P, key, value) ==
    IF storageMode = "allThrows"
    THEN [P EXCEPT !.threw = TRUE]
    ELSE [P EXCEPT !.storage[key] = value]

\* announceToScreenReader(message), reached only when nothing was thrown.
announceToScreenReader(P, message) ==
    IF P.threw THEN P ELSE [P EXCEPT !.ann = Append(@, message)]

\* classList.toggle(name, force)
toggleClass(classes, name, force) ==
    IF force THEN classes \cup {name} ELSE classes \ {name}

\* setTheme with the setItem call left out.
setTheme_NotPersisted(P, theme) ==
    announceToScreenReader([P EXCEPT !.dataTheme = theme],
                           "Switched to " \o theme \o " theme")

setTheme(P, theme) ==
    announceToScreenReader(
        setItem([P EXCEPT !.dataTheme = theme], "theme", theme),
        "Switched to " \o theme \o " theme")

\* setTextSize with the classList.remove call left out.
setTextSize_KeepsOldClass(P, size) ==
    announceToScreenReader(
        setItem([P EXCEPT !.rootClasses =
                    @ \cup (IF size # "normal" THEN {"text-" \o size} ELSE {})],
                "textSize", size),
        "Text size changed to " \o size)

setTextSize(P, size) ==
    announceToScreenReader(
        setItem([P EXCEPT !.rootClasses =
                    (@ \ SizeClasses) \cup (IF size # "normal" THEN {"text-" \o size} ELSE {})],
                "textSize", size),
        "Text size changed to " \o size)

setHighContrast(P, enabled) ==
    announceToScreenReader(
        setItem([P EXCEPT !.rootClasses = toggleClass(@, "high-contrast", enabled)],
                "highContrast", BoolAttr(enabled)),
        "High contrast mode " \o (IF enabled THEN "enabled" ELSE "disabled"))

setReducedMotion(P, enabled) ==
    announceToScreenReader(
        setItem([P EXCEPT !.rootClasses = toggleClass(@, "reduce-motion", enabled)],
                "reducedMotion", BoolAttr(enabled)),
        "Reduced motion " \o (IF enabled THEN "enabled" ELSE "disabled"))

\* this.detectSystemTheme(): the class does not define it; where the page
\* supplies it, it reports the system colour-scheme signal, dark by default.
detectSystemTheme == IF sysTheme = "light" THEN "light" ELSE "dark"

\* this.updateThemeControls(theme): the class does not define it; where the
\* page supplies it, it sets the theme controls without calling a setter.
updateThemeControls(P, theme) ==
    [P EXCEPT !.widgets.themePressed = BoolAttr(theme = "dark"),
              !.widgets.footerChecked = (theme = "dark")]

\* left || right on strings: null and the empty string are falsy.
OrElse(left, right) == IF left = null \/ left = "" THEN right ELSE left

\* The try block of loadUserPreferences, for readable storage and defined
\* helpers: resolve the four preferences, apply them, synchronise the controls.
loadTryBody(P) ==
    LET savedTheme == OrElse(P.storage["theme"], detectSystemTheme)
        savedTextSize == OrElse(P.storage["textSize"], "normal")
        savedHighContrast == (P.storage["highContrast"] = "true")
        savedReducedMotion == (P.storage["reducedMotion"] = "true")
        applied == setReducedMotion(
                       setHighContrast(
                           setTextSize(setTheme(P, savedTheme), savedTextSize),
                           savedHighContrast),
                       savedReducedMotion)
        synced == updateThemeControls(applied, savedTheme)
    IN [synced EXCEPT !.widgets.textSize = savedTextSize,
                      !.widgets.hcPressed = BoolAttr(savedHighContrast),
                      !.widgets.rmPressed = BoolAttr(savedReducedMotion)]

\* The catch block of loadUserPreferences: setTheme('dark'), then
\* updateThemeControls('dark').  What either throws leaves the method.
loadCatchBlock(P) ==
    LET themed == setTheme(P, "dark") IN
    IF themed.threw THEN themed
    ELSE IF ~helpersDefined THEN [themed EXCEPT !.threw = TRUE]
    ELSE updateThemeControls(themed, "dark")

\* loadUserPreferences.  The try block throws before it changes anything when
\* detectSystemTheme is undefined (TypeError) or getItem throws.
loadUserPreferences(P) ==
    IF helpersDefined /\ storageMode = "ok"
    THEN loadTryBody(P)
    ELSE loadCatchBlock(P)

\* setupReducedMotion up to its first possible throw: the system signal, when
\* it matches, checks the box and goes through setReducedMotion(true).
setupReducedMotion(P) ==
    IF sysMotion
    THEN setReducedMotion([P EXCEPT !.widgets.rmChecked = TRUE], TRUE)
    ELSE P

\* The preference state at the end of initializeComponents.
startupPrefs(P) ==
    IF setupReducedMotion(P).threw
    THEN setupReducedMotion(P)
    ELSE loadUserPreferences(setupReducedMotion(P))

\* Write a preference record back to the variables.
ApplyPrefs(P) ==
    /\ dataTheme' = P.dataTheme
    /\ rootClasses' = P.rootClasses
    /\ storage' = P.storage
    /\ widgets' = P.widgets
    /\ announcements' = P.ann

\* initializeComponents: the six setup steps in order, inside one try.
\* setupAccessibilityPanel takes the panel controls out of the tab order,
\* setupFormValidation computes the submit gate once; setupReducedMotion and
\* loadUserPreferences come last, so what they throw skips only what follows.
initializeComponents ==
    /\ pc = "boot"
    /\ pc' = "ready"
    /\ tabindex' = [c \in PanelControls |-> -1]
    /\ updateSubmitButtonState(values)
    /\ ApplyPrefs(startupPrefs(PrefState))
    /\ motionListener' = ~setupReducedMotion(PrefState).threw
    /\ loadOutcome' = IF setupReducedMotion(PrefState).threw THEN "notCalled"
                      ELSE IF startupPrefs(PrefState).threw THEN "threw"
                      ELSE "returned"
    /\ isInitialized' = ~startupPrefs(PrefState).threw
    /\ UNCHANGED <<panelOpen, ariaExpanded, ariaHidden, obsPending, focusTimers,
                   keyboardNav, focus, values, errorText, errorVisible, ariaInvalid,
                   loading, label, gateTimers, inflight, banners,
                   bannerTimers, envVars>>

(***************************************************************************)
(* Preference controls after startup.  An exception thrown by a setter     *)
(* ends the listener; the changes made before it stay.                     *)
(***************************************************************************)
TextSizes == {"normal", "large", "extra-large"}

\* 'click' listener of #themeToggle (setupThemeToggle).
themeToggleClick ==
    /\ pc = "ready" /\ ~obsPending
    /\ LET isPressed == (widgets.themePressed = "true")
           P == setTheme(PrefState, IF isPressed THEN "light" ELSE "dark")
       IN ApplyPrefs(IF P.threw THEN P
                     ELSE [P EXCEPT !.widgets.themePressed = BoolAttr(~isPressed)])
    /\ UNCHANGED <<pc, panelVars, focus, formVars, motionListener, isInitialized,
                   loadOutcome, envVars>>

\* 'change' listener of the footer checkbox #toggleTheme (setupThemeToggle).
footerThemeChange ==
    /\ pc = "ready" /\ ~obsPending
    /\ LET checked == ~widgets.footerChecked
           P == setTheme([PrefState EXCEPT !.widgets.footerChecked = checked],
                         IF checked THEN "dark" ELSE "light")
       IN ApplyPrefs(IF P.threw THEN P
                     ELSE [P EXCEPT !.widgets.themePressed = BoolAttr(checked)])
    /\ UNCHANGED <<pc, panelVars, focus, formVars, motionListener, isInitialized,
                   loadOutcome, envVars>>

\* 'change' listener of the #textSize select (setupPreferenceControls).
textSizeChange ==
    /\ pc = "ready" /\ ~obsPending
    /\ \E size \in TextSizes \ {widgets.textSize} :
        ApplyPrefs(setTextSize([PrefState EXCEPT !.widgets.textSize = size], size))
    /\ UNCHANGED <<pc, panelVars, focus, formVars, motionListener, isInitialized,
                   loadOutcome, envVars>>

\* 'change' listener of the #highContrast checkbox.
highContrastChange ==
    /\ pc = "ready" /\ ~obsPending
    /\ ApplyPrefs(setHighContrast(
            [PrefState EXCEPT !.widgets.hcChecked = ~widgets.hcChecked],
            ~widgets.hcChecked))
    /\ UNCHANGED <<pc, panelVars, focus, formVars, motionListener, isInitialized,
                   loadOutcome, envVars>>

\* 'change' listener of the #reducedMotion checkbox.
reducedMotionChange ==
    /\ pc = "ready" /\ ~obsPending
    /\ ApplyPrefs(setReducedMotion(
            [PrefState EXCEPT !.widgets.rmChecked = ~widgets.rmChecked],
            ~widgets.rmChecked))
    /\ UNCHANGED <<pc, panelVars, focus, formVars, motionListener, isInitialized,
                   loadOutcome, envVars>>

\* 'change' listener of the prefers-reduced-motion media query
\* (setupReducedMotion); it exists only if setupReducedMotion got that far.
systemMotionChange ==
    /\ pc = "ready" /\ ~obsPending
    /\ motionListener
    /\ sysMotion' = ~sysMotion
    /\ ApplyPrefs(setReducedMotion(
            [PrefState EXCEPT !.widgets.rmChecked = ~sysMotion], ~sysMotion))
    /\ UNCHANGED <<pc, panelVars, focus, formVars, motionListener, isInitialized,
                   loadOutcome, sysTheme, storageMode, helpersDefined>>

(***************************************************************************)
(* Initial states and specifications.                                      *)
(***************************************************************************)
vars == <<pc, panelVars, focus, announcements, formVars, prefVars, envVars>>

\* The page as loaded, before the manager is constructed: panel closed, no
\* error shown, no preference applied.
InitDocument ==
    /\ pc = "boot"
    /\ panelOpen = FALSE
    /\ ariaExpanded = "false"
    /\ ariaHidden = "true"
    /\ tabindex = [c \in PanelControls |-> 0]
    /\ obsPending = FALSE
    /\ focusTimers = 0
    /\ keyboardNav = FALSE
    /\ focus = "body"
    /\ announcements = <<>>
    /\ errorText = [f \in Fields |-> ""]
    /\ errorVisible = [f \in Fields |-> FALSE]
    /\ ariaInvalid = [f \in Fields |-> "false"]
    /\ submitDisabled = FALSE
    /\ submitReady = FALSE
    /\ loading = FALSE
    /\ label = OriginalLabel
    /\ gateTimers = 0
    /\ inflight = <<>>
    /\ banners = <<>>
    /\ bannerTimers = <<>>
    /\ dataTheme = "none"
    /\ rootClasses = {}
    /\ widgets = [textSize |-> "normal", hcChecked |-> FALSE, hcPressed |-> "none",
                  rmChecked |-> FALSE, rmPressed |-> "none", themePressed |-> "none",
                  footerChecked |-> FALSE]
    /\ motionListener = FALSE
    /\ isInitialized = FALSE
    /\ loadOutcome = "notCalled"

\* The page as loaded, with an empty form.
InitPage == InitDocument /\ values = [f \in Fields |-> <<>>]

\* Any stored entries the setters can have written on an earlier visit, any
\* system signals, readable or unreadable storage.
InitEnvironment ==
    /\ storage \in [StorageKeys -> {null, "light", "dark", "normal", "large",
                                     "extra-large", "true", "false"}]
    /\ storage["theme"] \in {null, "light", "dark"}
    /\ storage["textSize"] \in {null} \cup TextSizes
    /\ storage["highContrast"] \in {null, "true", "false"}
    /\ storage["reducedMotion"] \in {null, "true", "false"}
    /\ sysTheme \in {"light", "dark", "none"}
    /\ sysMotion \in BOOLEAN
    /\ storageMode \in {"ok", "readThrows", "allThrows"}
    /\ helpersDefined \in BOOLEAN

\* A first visit: empty storage, no system signal.
InitFirstVisit ==
    /\ storage = [k \in StorageKeys |-> null]
    /\ sysTheme = "none"
    /\ sysMotion = FALSE
    /\ storageMode = "ok"
    /\ helpersDefined = FALSE

Init == InitPage /\ InitEnvironment

\* The characters email values are built from: a letter, the two separators
\* of an address and a blank.
EmailAlphabet == {"u", "@", ".", " "}

\* The addresses named in the email scenario.
UserAtExampleCom == <<"u", "s", "e", "r", "@", "e", "x", "a", "m", "p", "l", "e", ".", "c", "o", "m">>
UserAt == <<"u", "s", "e", "r", "@">>
UserBlankExampleCom == <<"u", "s", "e", "r", " ", "e", "x", "a", "m", "p", "l", "e", ".", "c", "o", "m">>

\* The email values tried: every string over EmailAlphabet up to MaxEmailLen
\* characters, and the named addresses.
EmailInputs ==
    UNION {[1..n -> EmailAlphabet] : n \in 0..MaxEmailLen}
        \cup {UserAtExampleCom, UserAt, UserBlankExampleCom}

\* n letters.
Letters(n) == [k \in 1..n |-> "u"]

\* Name and message values on either side of their minimum length, bare and
\* padded with blanks.
RuleNames == {<<>>, Letters(1), Letters(2), <<" ">> \o Letters(1) \o <<" ">>}
RuleMessages == {<<>>, Letters(9), Letters(10), <<" ">> \o Letters(9) \o <<" ">>}

\* The page on a first visit with the three fields already filled, each with
\* any of the values tried for it.
InitRules ==
    /\ \E n \in RuleNames : \E e \in EmailInputs : \E m \in RuleMessages :
          values = [f \in Fields |->
                       CASE f = "name" -> n [] f = "email" -> e [] f = "message" -> m]
    /\ InitDocument
    /\ InitFirstVisit

\* The values of the success scenario.
Alice == <<"A", "l", "i", "c", "e">>
AliceAtExampleCom == <<"a", "l", "i", "c", "e", "@", "e", "x", "a", "m", "p", "l", "e", ".", "c", "o", "m">>
HelloLongEnough == <<"H", "e", "l", "l", "o", ",", " ", "t", "h", "i", "s", " ", "i", "s", " ", "l", "o", "n", "g", " ", "e", "n", "o", "u", "g", "h", ".">>
ScenarioValues ==
    [f \in Fields |->
        CASE f = "name" -> Alice
          [] f = "email" -> AliceAtExampleCom
          [] f = "message" -> HelloLongEnough]

\* The page on a first visit with the form filled as in the success scenario.
InitScenario ==
    /\ values = ScenarioValues
    /\ InitDocument
    /\ InitFirstVisit

\* The page on a first visit with an email value already in the field (typed
\* before the script ran, or restored by the browser).
InitEmail ==
    /\ \E v \in EmailInputs : values = [f \in Fields |-> IF f = "email" THEN v ELSE <<>>]
    /\ InitDocument
    /\ InitFirstVisit

\* The page on a first visit.
InitFirst == InitPage /\ InitFirstVisit

PanelNext ==
    \/ initializeComponents
    \/ handleToggleClick
    \/ handleDocumentClick
    \/ handleKeydown
    \/ handleMousedown
    \/ observerCallback
    \/ focusTimer
    \/ MoveFocus

FormNext ==
    \/ initializeComponents
    \/ MoveFocus
    \/ Input
    \/ GateTimer
    \/ SubmitClick
    \/ SubmitEvent
    \/ SubmissionSettled
    \/ BannerTimer

PrefsNext ==
    \/ initializeComponents
    \/ themeToggleClick
    \/ footerThemeChange
    \/ textSizeChange
    \/ highContrastChange
    \/ reducedMotionChange
    \/ systemMotionChange

Next == PanelNext \/ FormNext \/ PrefsNext

\* The whole page.
Spec == Init /\ [][Next]_vars

\* The panel on a first visit.
SpecPanel == InitFirst /\ [][PanelNext]_vars

\* The contact form on a first visit.
SpecForm == InitFirst /\ [][FormNext]_vars

\* Focus moving over a form whose email field holds any of EmailInputs: each
\* move away from the field runs validateField on it.
EmailNext ==
    \/ initializeComponents
    \/ MoveFocus

SpecEmail == InitEmail /\ [][EmailNext]_vars

\* The two places that judge the fields: the submit gate, computed at startup
\* and by each deferred recompute, and validateField, run on all three fields
\* by a submit.
RulesNext ==
    \/ initializeComponents
    \/ SubmitClick
    \/ SubmitEvent
    \/ GateTimer

SpecRules == InitRules /\ [][RulesNext]_vars

\* The preferences, from every environment.
SpecPrefs == Init /\ [][PrefsNext]_vars

\* The success scenario: the filled form is submitted, by the button or by
\* script, any number of times, and the timers and transports run.
ScenarioNext ==
    \/ initializeComponents
    \/ GateTimer
    \/ SubmitClick
    \/ SubmitEvent
    \/ SubmissionSettled
    \/ BannerTimer

\* The scenario with the banners' removal timers running: an 8 s timer that
\* is due fires (the code never cancels one).  Submits carry no fairness, and
\* no other timer needs any for what is checked here.
SpecFormLive ==
    /\ InitScenario
    /\ [][ScenarioNext]_vars
    /\ WF_vars(BannerTimer)

(***************************************************************************)
(* Properties of the panel.                                                *)
(***************************************************************************)
\* C1: in every state, so after every openPanel or closePanel however it was
\* reached, the panel has class 'open' iff its aria-hidden is "false" iff the
\* toggle's aria-expanded is "true".
C1_MirrorsAgree ==
    /\ panelOpen <=> (ariaHidden = "false")
    /\ panelOpen <=> (ariaExpanded = "true")

\* C1 witness: the panel was opened and then closed with Escape.
C1_Witness ==
    /\ ~panelOpen
    /\ announcements = <<"Accessibility panel closed">>
    /\ focus = "toggle"
    /\ focusTimers > 0

\* The tab order every panel control has for the panel's state.
TabOrderFor(open) == IF open THEN 0 ELSE -1

\* C2 as stated: once the manager is set up, every panel control has tabindex
\* 0 while the panel is open and -1 while it is closed, in every state, the
\* one between openPanel / closePanel returning and the observer callback
\* included.
C2_TabindexAlways ==
    pc = "ready" => \A c \in PanelControls : tabindex[c] = TabOrderFor(panelOpen)

\* C2 amended: the same, in every state in which no aria-hidden mutation
\* record awaits delivery to the observer.
C2_TabindexOnceDelivered ==
    (pc = "ready" /\ ~obsPending) =>
        \A c \in PanelControls : tabindex[c] = TabOrderFor(panelOpen)

\* C2 witness: the panel is open and the observer has run.
C2_Witness ==
    /\ panelOpen
    /\ ~obsPending
    /\ \A c \in PanelControls : tabindex[c] = 0

(***************************************************************************)
(* Properties of the contact form.                                         *)
(***************************************************************************)
\* The rule table: name of at least 2 characters, email of the shape
\* local@domain.tld, message of at least 10 characters, all after trimming.
MeetsRule(f, raw) ==
    CASE f = "name" -> Len(trim(raw)) >= 2
      [] f = "email" -> Len(trim(raw)) >= 2 /\ EmailPattern(trim(raw))
      [] f = "message" -> Len(trim(raw)) >= 10

AllMeetRules(vals) == \A f \in Fields : MeetsRule(f, vals[f])

\* A step of the submit listener: the only handler that sets three timers.
SubmitStep == gateTimers' >= gateTimers + 3

\* A step in which one deferred gate recompute runs.
GateStep == gateTimers' = gateTimers - 1

\* A step in which a pending submission completes.
SettleStep == inflight # <<>> /\ inflight' = Tail(inflight)

CorrectionRequest == <<"Please correct the errors in the form">>
SentAnnouncement == <<"Message sent successfully">>
FailedAnnouncement == <<"Error sending message. Please try again.">>

\* C3 as stated: while a submission is in flight the submit button is
\* disabled, in every intermediate state.
C3_DisabledWhileInFlight == inflight # <<>> => submitDisabled

\* C4 as stated: with no submission in flight and no gate recompute pending,
\* the submit button is enabled iff the three fields meet their rules.
C4_GateMatchesFields ==
    (pc = "ready" /\ inflight = <<>> /\ gateTimers = 0) =>
        (~submitDisabled <=> AllMeetRules(values))

\* C8 as stated: when a submission completes, whatever the outcome, the button
\* is enabled, the loading class is gone and the label is the original label;
\* on failure the values are unchanged and the banner is an error banner.
C8_RestoredOnCompletion ==
    [][SettleStep =>
        /\ ~submitDisabled'
        /\ ~loading'
        /\ label' = OriginalLabel
        /\ (announcements' = FailedAnnouncement =>
                values' = values /\ banner' # 0 /\ bannerKind' = "error")
        /\ (announcements' = SentAnnouncement =>
                banner' # 0 /\ bannerKind' = "success")]_vars

\* C9: a submit with a field that fails its rule starts no transport, leaves
\* the loading class and the label as they were, announces the correction
\* request, marks exactly the failing fields aria-invalid and focuses the
\* first of them in document order.
C9_InvalidSubmitAborts ==
    [][(SubmitStep /\ ~AllMeetRules(values)) =>
        /\ inflight' = inflight
        /\ loading' = loading
        /\ label' = label
        /\ announcements' = CorrectionRequest
        /\ \A f \in Fields : (ariaInvalid'[f] = "true") <=> ~MeetsRule(f, values[f])
        /\ \E k \in 1..Len(DocumentOrder) :
              /\ focus' = DocumentOrder[k]
              /\ ariaInvalid'[DocumentOrder[k]] = "true"
              /\ \A m \in 1..(k - 1) : ariaInvalid'[DocumentOrder[m]] # "true"]_vars

\* C9 witness: an aborted submit whose first invalid field is not the first
\* field of the form.
C9_Witness ==
    /\ announcements = CorrectionRequest
    /\ ariaInvalid["name"] = "false"
    /\ ariaInvalid["email"] = "true"
    /\ focus = "email"
    /\ gateTimers = 3

\* The scenario of C10: name "Al", email "bad", message "short".
AlBadShort ==
    [f \in Fields |->
        CASE f = "name" -> <<"A", "l">>
          [] f = "email" -> <<"b", "a", "d">>
          [] f = "message" -> <<"s", "h", "o", "r", "t">>]

\* C10 as stated: submitting "Al" / "bad" / "short" renders an inline error on
\* each of the three fields, the button stays disabled and no submission starts.
C10_ThreeErrors ==
    [][(SubmitStep /\ values = AlBadShort) =>
        /\ \A f \in Fields : errorVisible'[f]
        /\ (submitDisabled => submitDisabled')
        /\ inflight' = inflight]_vars

\* C10 amended: submitting "Al" / "bad" / "short" renders two inline errors,
\* on email and message, and none on name; a disabled button stays disabled,
\* through the submit and through each deferred recompute; no submission starts.
C10_TwoErrors ==
    [][/\ (SubmitStep /\ values = AlBadShort) =>
            /\ errorVisible' = [f \in Fields |-> f # "name"]
            /\ errorText'["name"] = ""
            /\ errorText'["email"] = "Please enter a valid email address"
            /\ errorText'["message"] = "Message must be at least 10 characters long"
            /\ (submitDisabled => submitDisabled')
            /\ inflight' = inflight
            /\ loading' = loading
       /\ (GateStep /\ values = AlBadShort) => submitDisabled']_vars

\* C10 witness: the scenario has been submitted with the button disabled.
C10_Witness ==
    /\ values = AlBadShort
    /\ announcements = CorrectionRequest
    /\ errorVisible = [f \in Fields |-> f # "name"]
    /\ submitDisabled
    /\ inflight = <<>>

(***************************************************************************)
(* Properties of the preferences at startup.                               *)
(***************************************************************************)
\* The step in which initializeComponents runs.
StartupStep == pc = "boot" /\ pc' = "ready"

\* The resolution order of the preferences: the stored entry, else the system
\* signal (theme and reduced motion only), else the hard default.
ResolvedTheme ==
    IF storage["theme"] \in {"light", "dark"} THEN storage["theme"]
    ELSE IF sysTheme \in {"light", "dark"} THEN sysTheme
    ELSE "dark"

ResolvedTextSize ==
    IF storage["textSize"] \in TextSizes THEN storage["textSize"] ELSE "normal"

ResolvedHighContrast == storage["highContrast"] = "true"

ResolvedReducedMotion ==
    IF storage["reducedMotion"] \in {"true", "false"}
    THEN storage["reducedMotion"] = "true"
    ELSE sysMotion

\* C5 as stated, for readable storage and a manager that has its two helper
\* methods: after startup the four document hooks equal the resolved values.
C5_HooksMatchResolved ==
    [][(StartupStep /\ storageMode = "ok" /\ helpersDefined) =>
        /\ dataTheme' = ResolvedTheme
        /\ rootClasses' \cap SizeClasses =
              (IF ResolvedTextSize = "normal" THEN {} ELSE {"text-" \o ResolvedTextSize})
        /\ ("high-contrast" \in rootClasses') <=> ResolvedHighContrast
        /\ ("reduce-motion" \in rootClasses') <=> ResolvedReducedMotion]_vars

\* C6 as stated, for readable storage and a manager that has its two helper
\* methods: a stored reducedMotion of "false" wins over the system signal; the
\* class stays off and the entry stays "false".
C6_StoredMotionWins ==
    [][(/\ StartupStep
        /\ storageMode = "ok"
        /\ helpersDefined
        /\ storage["reducedMotion"] = "false"
        /\ sysMotion) =>
        /\ "reduce-motion" \notin rootClasses'
        /\ storage'["reducedMotion"] = "false"]_vars

\* C7 as stated, for a manager that has its two helper methods: when reading
\* storage throws, the theme falls back to dark, loadUserPreferences returns
\* normally and initializeComponents runs to its end.
C7_StorageFailureHandled ==
    [][(StartupStep /\ storageMode # "ok" /\ helpersDefined) =>
        /\ dataTheme' = "dark"
        /\ loadOutcome' = "returned"
        /\ isInitialized']_vars

(***************************************************************************)
(* The success scenario and the banners.                                   *)
(***************************************************************************)
\* The form after form.reset().
EmptyForm == [f \in Fields |-> <<>>]

\* C11: in the scenario, a submit of three valid values activates the loading
\* state and starts a submission; when a submission succeeds the three values
\* are empty, every field error is cleared and a success banner with its own
\* pending timer is in the form; a banner leaves the form bannerless only
\* through its own timer, and once no submission is in flight the banner is
\* eventually removed unless a new submission is started first.
C11_ValidSubmitSucceeds ==
    /\ [][(SubmitStep /\ AllMeetRules(values)) =>
            /\ loading'
            /\ submitDisabled'
            /\ label' = BusyLabel
            /\ Len(inflight') = Len(inflight) + 1]_vars
    /\ [][(SettleStep /\ announcements' = SentAnnouncement) =>
            /\ values' = EmptyForm
            /\ \A f \in Fields :
                  ariaInvalid'[f] = "false" /\ ~errorVisible'[f] /\ errorText'[f] = ""
            /\ bannerKind' = "success"
            /\ banner' = Len(bannerTimers')
            /\ banner' > 0]_vars
    /\ [][(banner # 0 /\ banner' = 0) =>
            (banner = 1 /\ bannerTimers' = Tail(bannerTimers))]_vars
    /\ (banner # 0 /\ bannerKind = "success" /\ inflight = <<>>)
            ~> (banner = 0 \/ inflight # <<>>)

\* C11 witness: the scenario's submission has just succeeded, its three
\* deferred recomputes done, and its banner is the only one ever shown.
C11_Witness ==
    /\ announcements = SentAnnouncement
    /\ values = EmptyForm
    /\ banners = <<[timer |-> 1, kind |-> "success"]>>
    /\ bannerTimers = <<0>>
    /\ inflight = <<>>
    /\ gateTimers = 0
    /\ ~loading

(***************************************************************************)
(* Transitions of the panel.                                               *)
(***************************************************************************)
ClosedAnnouncement == <<"Accessibility panel closed">>
OpenedAnnouncement == <<"Accessibility panel opened">>

\* C12: while the panel is open, a toggle click, a document click outside the
\* panel and an Escape keydown each close it with exactly one 'closed'
\* announcement, Escape also moves focus to the toggle, and a document click
\* inside the panel leaves it open.
C12_OpenToClosed ==
    [][panelOpen =>
        /\ (handleToggleClick =>
                ~panelOpen' /\ announcements' = ClosedAnnouncement)
        /\ (handleDocumentClickOn("outside") =>
                ~panelOpen' /\ announcements' = ClosedAnnouncement)
        /\ (handleKeydownOf("Escape") =>
                ~panelOpen' /\ announcements' = ClosedAnnouncement /\ focus' = "toggle")
        /\ (handleDocumentClickOn("insidePanel") =>
                panelOpen' /\ announcements' = <<>>)]_vars

\* C12 witness: the panel, whose first control had taken focus, has just been
\* closed by a click that left focus where it was.
C12_Witness ==
    /\ ~panelOpen
    /\ announcements = ClosedAnnouncement
    /\ obsPending
    /\ focus = FirstFocusable

(***************************************************************************)
(* Properties of the preference setters.                                   *)
(***************************************************************************)
\* A setter's call returns: its setItem did not throw.
StorageWritable == storageMode # "allThrows"

\* C13: after every call of setTheme that returns, the stored 'theme' entry
\* and the data-theme attribute both equal the value passed (the toggle's
\* opposite of its pressed state, the footer checkbox's new state, at startup
\* the resolved theme or the fallback 'dark'), so that once startup has run
\* the two agree in every state, after any sequence of such calls.
C13_ThemePersisted ==
    /\ [][StorageWritable =>
            /\ (themeToggleClick =>
                    /\ dataTheme' = (IF widgets.themePressed = "true"
                                     THEN "light" ELSE "dark")
                    /\ storage'["theme"] = dataTheme')
            /\ (footerThemeChange =>
                    /\ dataTheme' = (IF widgets.footerChecked THEN "light" ELSE "dark")
                    /\ storage'["theme"] = dataTheme')
            /\ (StartupStep =>
                    /\ dataTheme' = (IF storageMode = "ok" /\ helpersDefined
                                     THEN ResolvedTheme ELSE "dark")
                    /\ storage'["theme"] = dataTheme')]_vars
    /\ []((pc = "ready" /\ StorageWritable) => storage["theme"] = dataTheme)

\* C13 witness: a click on the pressed theme toggle has switched a dark page
\* to the light theme.
C13_Witness ==
    /\ pc = "ready"
    /\ announcements = <<"Switched to light theme">>
    /\ dataTheme = "light"
    /\ storage["theme"] = "light"
    /\ widgets.themePressed = "false"
    /\ widgets.footerChecked

\* The size class that stands for a text size: none for normal.
SizeClassOf(size) == IF size = "normal" THEN {} ELSE {"text-" \o size}

\* C14: at most one size class is on the document root in every state; after
\* every call of setTextSize (a change of the select to any of the three
\* sizes, the startup load) the size classes present are exactly the class of
\* the value passed, and after every call that returns the stored 'textSize'
\* entry equals that value.
C14_OneSizeClass ==
    /\ [](Cardinality(rootClasses \cap SizeClasses) <= 1)
    /\ [][/\ (textSizeChange =>
                /\ widgets'.textSize \in TextSizes \ {widgets.textSize}
                /\ rootClasses' \cap SizeClasses = SizeClassOf(widgets'.textSize)
                /\ (StorageWritable => storage'["textSize"] = widgets'.textSize))
          /\ ((StartupStep /\ storageMode = "ok" /\ helpersDefined) =>
                /\ rootClasses' \cap SizeClasses = SizeClassOf(ResolvedTextSize)
                /\ storage'["textSize"] = ResolvedTextSize)]_vars

\* C14 witness: the select has been changed to large on a page that carried
\* another size before.
C14_Witness ==
    /\ pc = "ready"
    /\ announcements = <<"Text size changed to large">>
    /\ rootClasses \cap SizeClasses = {"text-large"}
    /\ storage["textSize"] = "large"
    /\ widgets.textSize = "large"

(***************************************************************************)
(* Banners.                                                                *)
(***************************************************************************)
\* A step in which the oldest pending banner timer fires.
BannerTimerStep == bannerTimers # <<>> /\ bannerTimers' = Tail(bannerTimers)

\* C15: the form holds at most one banner node in every state; when a
\* submission completes the form holds exactly the banner just created, the
\* one before it removed; and when a banner's timer fires, every banner node
\* created after that timer was set is still in the form.
C15_OneBanner ==
    /\ [](Len(banners) <= 1)
    /\ [][SettleStep =>
            /\ Len(banners') = 1
            /\ banners'[1].timer = Len(bannerTimers')]_vars
    /\ [][BannerTimerStep =>
            \A k \in 1..Len(banners) :
                banners[k].timer > 1 =>
                    \E j \in 1..Len(banners') :
                        banners'[j] = [banners[k] EXCEPT !.timer = @ - 1]]_vars

\* C15 witness: an error banner has replaced an earlier banner whose removal
\* timer is still pending.
C15_Witness ==
    /\ Len(bannerTimers) = 2
    /\ Len(banners) = 1
    /\ banners[1] = [timer |-> 2, kind |-> "error"]

(***************************************************************************)
(* The email rule.                                                         *)
(***************************************************************************)
\* The shape local@domain.tld: a trimmed value that is not empty, holds no
\* whitespace and exactly one '@', which is not its first character, and has
\* after the '@' a '.' with at least one character on either side.
EmailShape(raw) ==
    LET s == trim(raw) IN
    /\ s # <<>>
    /\ \A k \in 1..Len(s) : s[k] \notin Whitespace
    /\ Cardinality({k \in 1..Len(s) : s[k] = "@"}) = 1
    /\ LET at == CHOOSE k \in 1..Len(s) : s[k] = "@"
       IN /\ at > 1
          /\ \E d \in (at + 2)..(Len(s) - 1) : s[d] = "."

\* A step in which the email field loses focus, so validateField runs on it.
EmailBlurStep == focus = "email" /\ focus' # "email"

\* C16: validateField returns true for the email field iff its value has the
\* shape local@domain.tld, and the field is marked accordingly when it is
\* validated; user@example.com is accepted, user@, 'user example.com' and
\* the empty string are rejected.
C16_EmailRule ==
    /\ [](isValid("email", values["email"]) <=> EmailShape(values["email"]))
    /\ [][EmailBlurStep =>
            /\ (ariaInvalid'["email"] = "false") <=> EmailShape(values["email"])
            /\ (errorText'["email"] = "") <=> EmailShape(values["email"])]_vars
    /\ isValid("email", UserAtExampleCom)
    /\ ~isValid("email", UserAt)
    /\ ~isValid("email", UserBlankExampleCom)
    /\ ~isValid("email", <<>>)

\* C16 witness: 'user example.com' has been validated and rejected.
C16_Witness ==
    /\ values["email"] = UserBlankExampleCom
    /\ focus # "email"
    /\ ariaInvalid["email"] = "true"
    /\ errorText["email"] = "Please enter a valid email address"

(***************************************************************************)
(* The keyboard-navigation marker.                                         *)
(***************************************************************************)
\* C17: the body has no keyboard-navigation class before the first event; a
\* Tab keydown leaves it present and a mousedown leaves it absent, with the
\* panel open or closed alike; no other step changes it.  So the class is
\* present iff the last of the Tab keydowns and mousedowns was a Tab keydown.
C17_MarkerFollowsLastEvent ==
    /\ [](pc = "boot" => ~keyboardNav)
    /\ [][/\ (handleKeydownOf("Tab") => keyboardNav' /\ panelOpen' = panelOpen)
          /\ (handleMousedown => ~keyboardNav' /\ panelOpen' = panelOpen)
          /\ (~handleKeydownOf("Tab") /\ ~handleMousedown =>
                keyboardNav' = keyboardNav)]_vars

\* C17 witness: the marker is present on a page whose panel is open and has
\* taken the tab order, after a Tab keydown.
C17_Witness ==
    /\ keyboardNav
    /\ panelOpen
    /\ ~obsPending
    /\ announcements = <<>>
    /\ focus = FirstFocusable

(***************************************************************************)
(* The two copies of the validity rules.                                   *)
(***************************************************************************)
\* validateField returns true for each of the three fields.
EachFieldValid(vals) == \A f \in Fields : isValid(f, vals[f])

\* C18: on every triple of values the gate's verdict equals validateField's
\* on each field: as functions; where updateSubmitButtonState runs (startup,
\* a deferred recompute) the button is enabled iff validateField accepts all
\* three; and where a submit runs validateField on all three, no field is
\* marked invalid iff the gate's rule accepts the triple.
C18_GateAgreesWithValidateField ==
    /\ [](allFieldsValid(values) <=> EachFieldValid(values))
    /\ [][/\ ((StartupStep \/ GateStep) =>
                (~submitDisabled' <=> EachFieldValid(values)))
          /\ (SubmitStep =>
                ((\A f \in Fields : ariaInvalid'[f] = "false")
                    <=> allFieldsValid(values)))]_vars

\* C18 witness: startup has enabled the button over a name of exactly two
\* characters and a padded message of exactly ten.
C18_Witness ==
    /\ pc = "ready"
    /\ ~submitDisabled
    /\ inflight = <<>>
    /\ gateTimers = 0
    /\ values["name"] = Letters(2)
    /\ values["message"] = Letters(10)
    /\ values["email"] = UserAtExampleCom

(***************************************************************************)
(* One activation, one transition.                                         *)
(***************************************************************************)
\* C19: a click on the toggle moves the panel from closed to open or from
\* open to closed, once, with the one announcement of that transition and the
\* mirrors following; while the panel is closed a document click on any
\* target and an Escape keydown leave the class, aria-hidden, aria-expanded
\* and focus as they were and announce nothing.
C19_OneTransition ==
    [][/\ (handleToggleClick =>
            /\ panelOpen' = ~panelOpen
            /\ ariaExpanded' = BoolAttr(panelOpen')
            /\ ariaHidden' = BoolAttr(~panelOpen')
            /\ announcements' =
                  (IF panelOpen THEN ClosedAnnouncement ELSE OpenedAnnouncement))
       /\ (~panelOpen =>
            \A target \in ClickTargets :
                handleDocumentClickOn(target) =>
                    /\ UNCHANGED <<panelOpen, ariaHidden, ariaExpanded, focus>>
                    /\ announcements' = <<>>)
       /\ ((~panelOpen /\ handleKeydownOf("Escape")) =>
            /\ UNCHANGED <<panelOpen, ariaHidden, ariaExpanded, focus>>
            /\ announcements' = <<>>)]_vars

\* C19 witness: the toggle has opened the panel a second time while the focus
\* timer of the first opening is still pending.
C19_Witness ==
    /\ panelOpen
    /\ announcements = OpenedAnnouncement
    /\ obsPending
    /\ focusTimers = 2

(***************************************************************************)
(* Announcements at startup.                                               *)
(***************************************************************************)
\* The messages each setter announces.
ThemeMessages == {"Switched to light theme", "Switched to dark theme"}
SizeMessages == {"Text size changed to " \o size : size \in TextSizes}
ContrastMessages == {"High contrast mode enabled", "High contrast mode disabled"}
MotionMessages == {"Reduced motion enabled", "Reduced motion disabled"}

\* How many of the messages announced belong to S.
Count(messages, S) == Cardinality({k \in 1..Len(messages) : messages[k] \in S})

\* C20 as stated, for readable storage and a manager that has its two helper
\* methods: startup goes through each of the four setters exactly once, so it
\* announces each preference once and nothing else, the synchronisation of
\* the controls included.
C20_EachSetterOnce ==
    [][(StartupStep /\ storageMode = "ok" /\ helpersDefined) =>
        /\ \A S \in {ThemeMessages, SizeMessages, ContrastMessages, MotionMessages} :
              Count(announcements', S) = 1
        /\ Len(announcements') = 4]_vars

(***************************************************************************)
(* Interleavings.                                                          *)
(***************************************************************************)
\* C21 as stated: whenever no submission is in flight, whatever the order in
\* which submits and completions came, the submit button carries the label
\* it had before the first submission, not the busy label, and has no
\* loading class.
C21_LabelAfterAllCompleted ==
    inflight = <<>> => (label = OriginalLabel /\ label # BusyLabel /\ ~loading)

\* A step in which a focus timer set by openPanel fires.
FocusTimerStep == focusTimers' = focusTimers - 1

\* C22 as stated: a focus timer that fires while the panel is closed does not
\* move focus onto a panel control; in particular focus that Escape put on
\* the toggle stays there.
C22_NoFocusIntoClosedPanel ==
    [][(FocusTimerStep /\ ~panelOpen) =>
        /\ (focus' \in PanelControls => focus' = focus)
        /\ (focus = "toggle" => focus' = "toggle")]_vars

====
